---- MODULE Spec2Model ----
(***************************************************************************)
(* Model of report_downloader_app.py: the agent/date selection handlers,   *)
(* the report assembler fetch_combined_analysis_data, the renderer         *)
(* generate_docx_from_combined_json and the finding styling function       *)
(* _apply_finding_color_to_run.                                            *)
(***************************************************************************)
EXTENDS Integers, Sequences, FiniteSets, TLC

(***************************************************************************)
(* Python values.  A value that may be None (SQL NULL), a str or an int is *)
(* a tagged record; str(v) is what an f-string substitutes for it.         *)
(***************************************************************************)
PyNone == [t |-> "none"]

PyStr(s) == [t |-> "str", s |-> s]

PyInt(n) == [t |-> "int", n |-> n]

Digit(n) == <<"0", "1", "2", "3", "4", "5", "6", "7", "8", "9">>[n + 1]

RECURSIVE IntToStr(_)
IntToStr(n) == IF n < 10 THEN Digit(n) ELSE IntToStr(n \div 10) \o Digit(n % 10)

Format(v) ==
    IF v.t = "none" THEN "None"
    ELSE IF v.t = "str" THEN v.s
    ELSE IntToStr(v.n)

\* dict.get(key, default)
Get(d, k, default) == IF k \in DOMAIN d THEN d[k] ELSE default

Range(s) == {s[i] : i \in DOMAIN s}

(***************************************************************************)
(* The relational store.  Every table is the sequence of its rows in the   *)
(* order in which an unordered SELECT returns them.                        *)
(***************************************************************************)
Agents ==
    << [AgentID |-> 1, AgentName |-> "Ann"],
       [AgentID |-> 2, AgentName |-> "Bob"],
       [AgentID |-> 3, AgentName |-> "Cy"] >>

DateTime(y, mo, d, h, mi, s) == [y |-> y, mo |-> mo, d |-> d, h |-> h, mi |-> mi, s |-> s]

CombinedAnalyses ==
    << [CombinedAnalysisID |-> 1, AgentID |-> 1,
        AnalysisDateTime |-> DateTime(2024, 3, 1, 9, 30, 5),
        NumberOfReportsSuccessfullyAnalyzed |-> PyInt(12),
        AnalysisPeriodNote |-> PyStr("Q1 2024")],
       [CombinedAnalysisID |-> 2, AgentID |-> 1,
        AnalysisDateTime |-> DateTime(2024, 3, 1, 9, 30, 40),
        NumberOfReportsSuccessfullyAnalyzed |-> PyInt(7),
        AnalysisPeriodNote |-> PyStr("")],
       [CombinedAnalysisID |-> 3, AgentID |-> 2,
        AnalysisDateTime |-> DateTime(2024, 3, 2, 14, 5, 0),
        NumberOfReportsSuccessfullyAnalyzed |-> PyNone,
        AnalysisPeriodNote |-> PyNone],
       [CombinedAnalysisID |-> 4, AgentID |-> 2,
        AnalysisDateTime |-> DateTime(2024, 2, 11, 0, 5, 0),
        NumberOfReportsSuccessfullyAnalyzed |-> PyInt(3),
        AnalysisPeriodNote |-> PyStr("Feb")] >>

CombinedAnalysisStrengths ==
    << [CombinedAnalysisID |-> 1, StrengthText |-> "Clear tone"],
       [CombinedAnalysisID |-> 3, StrengthText |-> "Patient"],
       [CombinedAnalysisID |-> 1, StrengthText |-> "Accurate"] >>

CombinedAnalysisDevelopmentAreas ==
    << [CombinedAnalysisID |-> 3, DevelopmentAreaText |-> "Pace"],
       [CombinedAnalysisID |-> 2, DevelopmentAreaText |-> "Listening"] >>

CombinedAnalysisCoachingFocus ==
    << [CoachingFocusID |-> 11, CombinedAnalysisID |-> 1, AreaText |-> "Hold Procedure"],
       [CoachingFocusID |-> 12, CombinedAnalysisID |-> 3, AreaText |-> "Closing"],
       [CoachingFocusID |-> 10, CombinedAnalysisID |-> 1, AreaText |-> "Empathy"],
       [CoachingFocusID |-> 13, CombinedAnalysisID |-> 1, AreaText |-> "Greeting"] >>

CombinedAnalysisCoachingActions ==
    << [CoachingFocusID |-> 10, ActionText |-> "Acknowledge feelings"],
       [CoachingFocusID |-> 11, ActionText |-> "Confirm before hold"],
       [CoachingFocusID |-> 12, ActionText |-> "Summarise the call"],
       [CoachingFocusID |-> 11, ActionText |-> "Thank after hold"] >>

CombinedAnalysisQualityPointDetails ==
    << [CombinedAnalysisID |-> 1, QualityPointID |-> 2, TrendObservation |-> "Improving"],
       [CombinedAnalysisID |-> 2, QualityPointID |-> 1, TrendObservation |-> "Declining"],
       [CombinedAnalysisID |-> 1, QualityPointID |-> 1, TrendObservation |-> "Consistent"] >>

QualityPointsMaster ==
    << [QualityPointID |-> 1, QualityPointText |-> "Greeting"],
       [QualityPointID |-> 2, QualityPointText |-> "Hold"] >>

AnalysisIds == {CombinedAnalyses[i].CombinedAnalysisID : i \in DOMAIN CombinedAnalyses}

\* Faults a data-store call can raise (the text of the pyodbc exception).
Faults == {"08S01 link failure"}

NoFault == "no fault"

\* At most this many root rows are removed by other users of the store.
MaxDeleted == 2

(***************************************************************************)
(* Queries.                                                                *)
(***************************************************************************)
\* datetime.strftime("%Y-%m-%d %I:%M %p")
Pad2(n) == IF n < 10 THEN "0" \o Digit(n) ELSE IntToStr(n)

Strftime(dt) ==
    IntToStr(dt.y) \o "-" \o Pad2(dt.mo) \o "-" \o Pad2(dt.d) \o " "
      \o Pad2(IF dt.h % 12 = 0 THEN 12 ELSE dt.h % 12) \o ":" \o Pad2(dt.mi)
      \o " " \o (IF dt.h < 12 THEN "AM" ELSE "PM")

\* Comparison of two datetime values, field by field.
DateTimeFields(dt) == <<dt.y, dt.mo, dt.d, dt.h, dt.mi, dt.s>>

DateTimeLess(a, b) ==
    \E k \in 1..6 :
        /\ DateTimeFields(a)[k] < DateTimeFields(b)[k]
        /\ \A m \in 1..(k - 1) : DateTimeFields(a)[m] = DateTimeFields(b)[m]

\* ORDER BY AnalysisDateTime DESC (rows of equal datetime keep their table order)
RECURSIVE OrderByDateTimeDesc(_)
OrderByDateTimeDesc(rows) ==
    IF rows = <<>> THEN <<>>
    ELSE LET i == CHOOSE i \in DOMAIN rows :
                    \A j \in DOMAIN rows :
                        \/ DateTimeLess(rows[j].AnalysisDateTime, rows[i].AnalysisDateTime)
                        \/ (rows[j].AnalysisDateTime = rows[i].AnalysisDateTime /\ i <= j)
             rest == [k \in 1..(Len(rows) - 1) |-> IF k < i THEN rows[k] ELSE rows[k + 1]]
         IN  <<rows[i]>> \o OrderByDateTimeDesc(rest)

\* SELECT AgentID, AgentName FROM Agents ORDER BY AgentName  (Agents is kept in name order)
SelectAgents == Agents

\* SELECT CombinedAnalysisID, AnalysisDateTime FROM CombinedAnalyses WHERE AgentID = ? ORDER BY AnalysisDateTime DESC
SelectAnalysesOfAgent(gone, agent_id) ==
    OrderByDateTimeDesc(SelectSeq(CombinedAnalyses,
        LAMBDA r : r.AgentID = agent_id /\ r.CombinedAnalysisID \notin gone))

\* SELECT * FROM CombinedAnalyses c JOIN Agents a ON c.AgentID = a.AgentID WHERE c.CombinedAnalysisID = ?
SelectMain(gone, id) ==
    LET cs == SelectSeq(CombinedAnalyses,
                  LAMBDA r : r.CombinedAnalysisID = id /\ r.CombinedAnalysisID \notin gone)
        joined(c) == LET as == SelectSeq(Agents, LAMBDA a : a.AgentID = c.AgentID)
                     IN  [k \in DOMAIN as |->
                            [CombinedAnalysisID |-> c.CombinedAnalysisID,
                             AgentName |-> as[k].AgentName,
                             NumberOfReportsSuccessfullyAnalyzed |-> c.NumberOfReportsSuccessfullyAnalyzed,
                             AnalysisPeriodNote |-> c.AnalysisPeriodNote]]
    IN  IF cs = <<>> THEN <<>> ELSE joined(cs[1])

SelectStrengths(id) ==
    SelectSeq(CombinedAnalysisStrengths, LAMBDA r : r.CombinedAnalysisID = id)

SelectDevelopmentAreas(id) ==
    SelectSeq(CombinedAnalysisDevelopmentAreas, LAMBDA r : r.CombinedAnalysisID = id)

SelectCoachingFocus(id) ==
    SelectSeq(CombinedAnalysisCoachingFocus, LAMBDA r : r.CombinedAnalysisID = id)

SelectCoachingActions(focus_id) ==
    SelectSeq(CombinedAnalysisCoachingActions, LAMBDA r : r.CoachingFocusID = focus_id)

SelectDetails(id) ==
    LET ds == SelectSeq(CombinedAnalysisQualityPointDetails, LAMBDA r : r.CombinedAnalysisID = id)
        qp(d) == SelectSeq(QualityPointsMaster, LAMBDA m : m.QualityPointID = d.QualityPointID)
        RECURSIVE join(_)
        join(s) == IF s = <<>> THEN <<>>
                   ELSE [k \in DOMAIN qp(s[1]) |->
                            [QualityPointText |-> qp(s[1])[k].QualityPointText,
                             TrendObservation |-> s[1].TrendObservation]] \o join(Tail(s))
    IN  join(ds)

(***************************************************************************)
(* _apply_finding_color_to_run.  A finding text is None or a str, a str    *)
(* being the sequence of its character codes; a run carries the tri-state  *)
(* bold attribute and the font colour (<<>> when no colour is set).        *)
(***************************************************************************)
FindingNone == [t |-> "none"]

FindingStr(codes) == [t |-> "str", s |-> codes]

\* str.lower() on ASCII text
Lower(s) == [i \in DOMAIN s |-> IF s[i] \in 65..90 THEN s[i] + 32 ELSE s[i]]

\* "positive", "negative", "neutral"
PositiveWord == <<112, 111, 115, 105, 116, 105, 118, 101>>

NegativeWord == <<110, 101, 103, 97, 116, 105, 118, 101>>

NeutralWord == <<110, 101, 117, 116, 114, 97, 108>>

\* RGBColor(0x00, 0x64, 0x00), RGBColor(0xC0, 0x00, 0x00), RGBColor(0x00, 0x00, 0x8B)
DarkGreen == <<0, 100, 0>>

DarkRed == <<192, 0, 0>>

DarkBlue == <<0, 0, 139>>

ApplyFindingColorToRun_NoEarlyReturn(r, finding_text) ==
    LET text == IF finding_text.t = "none" THEN <<>> ELSE finding_text.s
        coloured ==
            IF Lower(text) = PositiveWord THEN [r EXCEPT !.rgb = DarkGreen]
            ELSE IF Lower(text) = NegativeWord THEN [r EXCEPT !.rgb = DarkRed]
            ELSE IF Lower(text) = NeutralWord THEN [r EXCEPT !.rgb = DarkBlue]
            ELSE r
    IN  [coloured EXCEPT !.bold = "True"]

ApplyFindingColorToRun(r, finding_text) ==
    IF finding_text.t = "none" \/ finding_text.s = <<>> THEN r
    ELSE LET coloured ==
                 IF Lower(finding_text.s) = PositiveWord THEN [r EXCEPT !.rgb = DarkGreen]
                 ELSE IF Lower(finding_text.s) = NegativeWord THEN [r EXCEPT !.rgb = DarkRed]
                 ELSE IF Lower(finding_text.s) = NeutralWord THEN [r EXCEPT !.rgb = DarkBlue]
                 ELSE r
         IN  [coloured EXCEPT !.bold = "True"]

(***************************************************************************)
(* generate_docx_from_combined_json.  The document is the sequence of the  *)
(* block elements added to it, in the order of the add_* calls.            *)
(***************************************************************************)
Heading(text, level) ==
    [kind |-> "heading", level |-> level, style |-> "Heading", text |-> text,
     bold |-> FALSE, rows |-> <<>>]

Paragraph(text, style) ==
    [kind |-> "paragraph", level |-> 0, style |-> style, text |-> text,
     bold |-> FALSE, rows |-> <<>>]

\* doc.add_paragraph().add_run(text).bold = True
BoldRunParagraph(text) ==
    [kind |-> "paragraph", level |-> 0, style |-> "Normal", text |-> text,
     bold |-> TRUE, rows |-> <<>>]

Cell(text, bold) == [text |-> text, bold |-> bold]

Table(rows) ==
    [kind |-> "table", level |-> 0, style |-> "Table Grid", text |-> "",
     bold |-> FALSE, rows |-> rows]

TitleText(header) ==
    "Performance Trend Analysis & Coaching Report: " \o Format(Get(header, "agent_name", PyStr("N/A")))

SummaryText(header) ==
    "Analysis based on "
      \o Format(Get(header, "number_of_reports_successfully_analyzed", PyStr("N/A")))
      \o " calls. Period: "
      \o Format(Get(header, "analysis_period_note", PyStr("N/A")))

StrengthsHeading == "Key Strengths & Consistent Positive Performance"

DevAreasHeading == "Areas for Development & Recurring Challenges"

CoachingHeading == "Consolidated Coaching & Development Plan"

DetailHeading == "Detailed Quality Point Analysis"

ActionsLabel == "Actionable Recommendations:"

RenderBulletSection_AlwaysHeading(heading, items) ==
    <<Heading(heading, 2)>> \o [i \in 1..Len(items) |-> Paragraph(items[i], "ListBullet")]

\* if items: add_heading(heading, level=2); for item in items: add_paragraph(item, style='ListBullet')
RenderBulletSection(heading, items) ==
    IF items = <<>> THEN <<>>
    ELSE <<Heading(heading, 2)>> \o [i \in 1..Len(items) |-> Paragraph(items[i], "ListBullet")]

RenderFocus_DropsLastAction(area_item) ==
    LET recommendations == Get(area_item, "specific_actions", <<>>)
    IN  <<Heading(Get(area_item, "area", "Focus Area"), 3)>>
          \o (IF recommendations = <<>> THEN <<>>
              ELSE <<BoldRunParagraph(ActionsLabel)>>
                     \o [i \in 1..(Len(recommendations) - 1) |-> Paragraph(recommendations[i], "ListNumber")])

RenderFocus(area_item) ==
    LET recommendations == Get(area_item, "specific_actions", <<>>)
    IN  <<Heading(Get(area_item, "area", "Focus Area"), 3)>>
          \o (IF recommendations = <<>> THEN <<>>
              ELSE <<BoldRunParagraph(ActionsLabel)>>
                     \o [i \in 1..Len(recommendations) |-> Paragraph(recommendations[i], "ListNumber")])

RECURSIVE RenderFoci(_)
RenderFoci(coaching_items) ==
    IF coaching_items = <<>> THEN <<>>
    ELSE RenderFocus(Head(coaching_items)) \o RenderFoci(Tail(coaching_items))

RenderCoachingSection(coaching_items) ==
    IF coaching_items = <<>> THEN <<>>
    ELSE <<Heading(CoachingHeading, 2)>> \o RenderFoci(coaching_items)

DetailRow(item) ==
    << Cell(Get(item, "quality_point", "N/A"), FALSE),
       Cell(Get(item, "trend_observation", "N/A"), FALSE),
       Cell(Get(item, "coaching_recommendation_for_point", "N/A"), FALSE) >>

TableHeaderRow ==
    << Cell("Quality Point", TRUE), Cell("Trend Observation", TRUE),
       Cell("Coaching Recommendation", TRUE) >>

RenderDetailSection(detailed_qpa) ==
    IF detailed_qpa = <<>> THEN <<>>
    ELSE << Heading(DetailHeading, 2),
            Table(<<TableHeaderRow>> \o [i \in 1..Len(detailed_qpa) |-> DetailRow(detailed_qpa[i])]) >>

\* The elements of the document built by lines 40-82, for the dictionary json_data.
DocElements(json_data) ==
    LET header == Get(json_data, "report_header", <<>>)
        qualitative_summary == Get(json_data, "qualitative_summary_and_coaching_plan", <<>>)
    IN  << Heading(TitleText(header), 1), Paragraph(SummaryText(header), "Normal") >>
          \o RenderBulletSection(StrengthsHeading, Get(qualitative_summary, "overall_strengths_observed", <<>>))
          \o RenderBulletSection(DevAreasHeading, Get(qualitative_summary, "overall_areas_for_development", <<>>))
          \o RenderCoachingSection(Get(qualitative_summary, "consolidated_coaching_focus", <<>>))
          \o RenderDetailSection(Get(json_data, "detailed_quality_point_analysis", <<>>))

(***************************************************************************)
(* The application state.                                                  *)
(***************************************************************************)
VARIABLES
    deleted,         \* CombinedAnalysisIDs whose root row has been removed from the store
    agents,          \* self.agents: {agent_name: agent_id}
    agent_listbox,   \* entries of self.agent_listbox
    agent_sel,       \* agent_listbox.curselection(): 0 when empty, else the index
    analysis_dates,  \* self.analysis_dates: {formatted_date_str: analysis_id}
    date_listbox,    \* entries of self.date_listbox
    date_src,        \* for each date_listbox entry, the CombinedAnalysisID of the row it was made from
    date_sel,        \* date_listbox.curselection(): 0 when empty, else the index
    pc,              \* position of on_download_click / fetch_combined_analysis_data
    analysis_id,     \* local of on_download_click (0 when None)
    queries,         \* the statements executed on the cursor by the current fetch
    focus_rows,      \* the focus rows the loop of line 238 has still to visit
    report,          \* local report of fetch_combined_analysis_data
    report_data,     \* local report_data of on_download_click: the value fetch returned
    notices,         \* message boxes shown by the handler that ran last
    outcome,         \* how the last download click ended
    shown,           \* for each outcome, the message boxes shown so far by clicks ending in it
    doc,             \* the Document built by generate_docx_from_combined_json
    run,             \* the run handed to _apply_finding_color_to_run
    finding_text,    \* the finding text handed to _apply_finding_color_to_run
    styled           \* TRUE when _apply_finding_color_to_run has been applied to run

vars ==
    << deleted, agents, agent_listbox, agent_sel, analysis_dates, date_listbox, date_src,
       date_sel, pc, analysis_id, queries, focus_rows, report, report_data, notices,
       outcome, shown, doc, run, finding_text, styled >>

uiVars == << agents, agent_listbox, agent_sel, analysis_dates, date_listbox, date_src, date_sel >>

styleVars == << run, finding_text, styled >>

Outcomes == {"NotFound", "AssemblyFailure", "RenderFailure"}

MessageBox(kind, title, text) == [kind |-> kind, title |-> title, text |-> text]

Query(sql, param, fault, nrows) == [sql |-> sql, param |-> param, fault |-> fault, nrows |-> nrows]

\* populate_agent_list: self.agents[row.AgentName] = row.AgentID for every row, in order
AgentsDict(rows) ==
    [n \in {rows[i].AgentName : i \in DOMAIN rows} |->
        rows[CHOOSE i \in DOMAIN rows :
                /\ rows[i].AgentName = n
                /\ \A j \in DOMAIN rows : rows[j].AgentName = n => j <= i].AgentID]

\* lines 170-174: self.analysis_dates[date_str] = row.CombinedAnalysisID for every row, in order
AnalysisDatesDict(rows) ==
    [n \in {Strftime(rows[i].AnalysisDateTime) : i \in DOMAIN rows} |->
        rows[CHOOSE i \in DOMAIN rows :
                /\ Strftime(rows[i].AnalysisDateTime) = n
                /\ \A j \in DOMAIN rows : Strftime(rows[j].AnalysisDateTime) = n => j <= i].CombinedAnalysisID]

Init ==
    /\ deleted = {}
    /\ agents = AgentsDict(SelectAgents)
    /\ agent_listbox = [i \in DOMAIN SelectAgents |-> SelectAgents[i].AgentName]
    /\ agent_sel = 0
    /\ analysis_dates = <<>>
    /\ date_listbox = <<>>
    /\ date_src = <<>>
    /\ date_sel = 0
    /\ pc = "idle"
    /\ analysis_id = 0
    /\ queries = <<>>
    /\ focus_rows = <<>>
    /\ report = PyNone
    /\ report_data = PyNone
    /\ notices = <<>>
    /\ outcome = "none"
    /\ shown = [o \in Outcomes |-> {}]
    /\ doc = <<>>
    /\ run = [bold |-> "None", rgb |-> <<>>]
    /\ finding_text = FindingNone
    /\ styled = FALSE

(***************************************************************************)
(* Another user of the store removes the root row of an analysis.          *)
(***************************************************************************)
DeleteAnalysis(id) ==
    /\ id \notin deleted
    /\ Cardinality(deleted) < MaxDeleted
    /\ deleted' = deleted \cup {id}
    /\ UNCHANGED << uiVars, pc, analysis_id, queries, focus_rows, report, report_data,
                    notices, outcome, shown, doc, styleVars >>

(***************************************************************************)
(* on_agent_select, fired when the user selects entry i of the agent list. *)
(***************************************************************************)
OnAgentSelect(i, fault) ==
    /\ pc = "idle"
    /\ i \in DOMAIN agent_listbox
    /\ agent_sel' = i
    /\ date_sel' = 0
    /\ LET selected_agent_name == agent_listbox[i]
           agent_id == Get(agents, selected_agent_name, 0)
           rows == SelectAnalysesOfAgent(deleted, agent_id)
       IN  IF agent_id = 0
           THEN /\ date_listbox' = <<>>
                /\ date_src' = <<>>
                /\ analysis_dates' = <<>>
                /\ notices' = <<>>
           ELSE IF fault # NoFault
           THEN /\ date_listbox' = <<>>
                /\ date_src' = <<>>
                /\ analysis_dates' = <<>>
                /\ notices' = << MessageBox("showerror", "Error",
                                    "Failed to fetch reports for " \o selected_agent_name \o ": " \o fault) >>
           ELSE /\ date_listbox' = [k \in DOMAIN rows |-> Strftime(rows[k].AnalysisDateTime)]
                /\ date_src' = [k \in DOMAIN rows |-> rows[k].CombinedAnalysisID]
                /\ analysis_dates' = AnalysisDatesDict(rows)
                /\ notices' = <<>>
    /\ UNCHANGED << deleted, agents, agent_listbox, pc, analysis_id, queries, focus_rows,
                    report, report_data, outcome, shown, doc, styleVars >>

\* The user selects entry j of the date list (no handler is bound to it).
SelectDate(j) ==
    /\ pc = "idle"
    /\ j \in DOMAIN date_listbox
    /\ date_sel' = j
    /\ UNCHANGED << deleted, agents, agent_listbox, agent_sel, analysis_dates, date_listbox,
                    date_src, pc, analysis_id, queries, focus_rows, report, report_data,
                    notices, outcome, shown, doc, styleVars >>

(***************************************************************************)
(* on_download_click and fetch_combined_analysis_data.                     *)
(***************************************************************************)
SelectAgentWarning == MessageBox("showwarning", "Selection Required", "Please select an agent first.")

SelectDateWarning == MessageBox("showwarning", "Selection Required", "Please select a report date.")

DataErrorBox ==
    MessageBox("showerror", "Data Error", "Could not retrieve the report data from the database.")

DbQueryErrorBox(e) ==
    MessageBox("showerror", "Database Query Error",
               "An error occurred while fetching report details: " \o e)

DocxErrorBox(e) ==
    MessageBox("showerror", "DOCX Generation Error", "Failed to generate the .docx file: " \o e)

SuccessBox(save_path) ==
    MessageBox("showinfo", "Success", "Report successfully saved to: " \o save_path)

\* on_download_click returns to the event loop having shown the boxes ns
EndClick(o, ns) ==
    /\ pc' = "idle"
    /\ outcome' = o
    /\ notices' = ns
    /\ shown' = IF o \in Outcomes THEN [shown EXCEPT ![o] = @ \cup Range(ns)] ELSE shown

OnDownloadClick ==
    /\ pc = "idle"
    /\ queries' = <<>>
    /\ report_data' = PyNone
    /\ doc' = <<>>
    /\ IF agent_sel = 0
       THEN /\ EndClick("SelectionRequired", <<SelectAgentWarning>>)
            /\ UNCHANGED analysis_id
       ELSE IF date_sel = 0
       THEN /\ EndClick("SelectionRequired", <<SelectDateWarning>>)
            /\ UNCHANGED analysis_id
       ELSE LET selected_date_str == date_listbox[date_sel]
                id == Get(analysis_dates, selected_date_str, 0)
            IN  /\ analysis_id' = id
                /\ IF id = 0
                   THEN EndClick("none", <<>>)
                   ELSE /\ pc' = "main"
                        /\ outcome' = "none"
                        /\ notices' = <<>>
                        /\ UNCHANGED shown
    /\ UNCHANGED << deleted, uiVars, focus_rows, report, styleVars >>

\* lines 260-262, then lines 196-198 of the caller
FetchExcept_ReturnsPartial(qs, e) ==
    /\ queries' = qs
    /\ focus_rows' = <<>>
    /\ report' = PyNone
    /\ report_data' = report
    /\ IF report = PyNone
       THEN EndClick("AssemblyFailure", notices \o <<DbQueryErrorBox(e), DataErrorBox>>)
       ELSE /\ pc' = "save"
            /\ notices' = notices \o <<DbQueryErrorBox(e)>>
            /\ UNCHANGED << outcome, shown >>

FetchExcept(qs, e) ==
    /\ queries' = qs
    /\ focus_rows' = <<>>
    /\ report' = PyNone
    /\ report_data' = PyNone
    /\ EndClick("AssemblyFailure", notices \o <<DbQueryErrorBox(e), DataErrorBox>>)

\* line 220, then lines 196-198 of the caller
FetchReturnNone(qs) ==
    /\ queries' = qs
    /\ focus_rows' = <<>>
    /\ report' = PyNone
    /\ report_data' = PyNone
    /\ EndClick("NotFound", notices \o <<DataErrorBox>>)

NewReport(main_row, strengths, dev_areas) ==
    [report_header |->
        [agent_name |-> PyStr(main_row.AgentName),
         number_of_reports_successfully_analyzed |-> main_row.NumberOfReportsSuccessfullyAnalyzed,
         analysis_period_note |-> main_row.AnalysisPeriodNote],
     qualitative_summary_and_coaching_plan |->
        [overall_strengths_observed |-> [i \in DOMAIN strengths |-> strengths[i].StrengthText],
         overall_areas_for_development |-> [i \in DOMAIN dev_areas |-> dev_areas[i].DevelopmentAreaText],
         consolidated_coaching_focus |-> <<>>],
     detailed_quality_point_analysis |-> <<>>]

FetchHeaderAndLists_NoEarlyReturn(at, e) ==
    /\ pc = "main"
    /\ LET rows == SelectMain(deleted, analysis_id)
           main_row == IF rows = <<>>
                       THEN [AgentName |-> "", NumberOfReportsSuccessfullyAnalyzed |-> PyNone,
                             AnalysisPeriodNote |-> PyNone]
                       ELSE rows[1]
           strengths == SelectStrengths(analysis_id)
           dev_areas == SelectDevelopmentAreas(analysis_id)
           q1 == Query("main", analysis_id, IF at = 1 THEN e ELSE NoFault, IF at = 1 THEN 0 ELSE Len(rows))
           q2 == Query("strengths", analysis_id, IF at = 2 THEN e ELSE NoFault, IF at = 2 THEN 0 ELSE Len(strengths))
           q3 == Query("development areas", analysis_id, IF at = 3 THEN e ELSE NoFault, IF at = 3 THEN 0 ELSE Len(dev_areas))
       IN  IF at = 1 THEN FetchExcept(<<q1>>, e)
           ELSE IF at = 2 THEN FetchExcept(<<q1, q2>>, e)
           ELSE IF at = 3 THEN FetchExcept(<<q1, q2, q3>>, e)
           ELSE /\ queries' = <<q1, q2, q3>>
                /\ report' = NewReport(main_row, strengths, dev_areas)
                /\ pc' = "focus"
                /\ UNCHANGED << focus_rows, report_data, notices, outcome, shown >>
    /\ UNCHANGED << deleted, uiVars, analysis_id, doc, styleVars >>

\* lines 214-234: the root row, then the dictionary literal with the strengths and development areas
FetchHeaderAndLists(at, e) ==
    /\ pc = "main"
    /\ LET rows == SelectMain(deleted, analysis_id)
           strengths == SelectStrengths(analysis_id)
           dev_areas == SelectDevelopmentAreas(analysis_id)
           q1 == Query("main", analysis_id, IF at = 1 THEN e ELSE NoFault, IF at = 1 THEN 0 ELSE Len(rows))
           q2 == Query("strengths", analysis_id, IF at = 2 THEN e ELSE NoFault, IF at = 2 THEN 0 ELSE Len(strengths))
           q3 == Query("development areas", analysis_id, IF at = 3 THEN e ELSE NoFault, IF at = 3 THEN 0 ELSE Len(dev_areas))
       IN  IF at = 1 THEN FetchExcept(<<q1>>, e)
           ELSE IF rows = <<>> THEN at = 0 /\ FetchReturnNone(<<q1>>)
           ELSE IF at = 2 THEN FetchExcept(<<q1, q2>>, e)
           ELSE IF at = 3 THEN FetchExcept(<<q1, q2, q3>>, e)
           ELSE /\ queries' = <<q1, q2, q3>>
                /\ report' = NewReport(rows[1], strengths, dev_areas)
                /\ pc' = "focus"
                /\ UNCHANGED << focus_rows, report_data, notices, outcome, shown >>
    /\ UNCHANGED << deleted, uiVars, analysis_id, doc, styleVars >>

\* line 237
FetchFocusRows(fault) ==
    /\ pc = "focus"
    /\ LET rows == SelectCoachingFocus(analysis_id)
           q == Query("coaching focus", analysis_id, fault, IF fault # NoFault THEN 0 ELSE Len(rows))
       IN  IF fault # NoFault THEN FetchExcept(Append(queries, q), fault)
           ELSE /\ queries' = Append(queries, q)
                /\ focus_rows' = rows
                /\ pc' = "loop"
                /\ UNCHANGED << report, report_data, notices, outcome, shown >>
    /\ UNCHANGED << deleted, uiVars, analysis_id, doc, styleVars >>

AppendFocus(rep, focus) ==
    [rep EXCEPT !.qualitative_summary_and_coaching_plan.consolidated_coaching_focus = Append(@, focus)]

FetchActions_AccumulatesActions(fault) ==
    /\ pc = "loop"
    /\ focus_rows # <<>>
    /\ LET focus_row == Head(focus_rows)
           rows == SelectCoachingActions(focus_row.CoachingFocusID)
           done == report.qualitative_summary_and_coaching_plan.consolidated_coaching_focus
           earlier == IF done = <<>> THEN <<>> ELSE done[Len(done)].specific_actions
           actions == earlier \o [i \in DOMAIN rows |-> rows[i].ActionText]
           q == Query("coaching actions", focus_row.CoachingFocusID, fault,
                      IF fault # NoFault THEN 0 ELSE Len(rows))
       IN  IF fault # NoFault THEN FetchExcept(Append(queries, q), fault)
           ELSE /\ queries' = Append(queries, q)
                /\ report' = AppendFocus(report, [area |-> focus_row.AreaText, specific_actions |-> actions])
                /\ focus_rows' = Tail(focus_rows)
                /\ UNCHANGED << pc, report_data, notices, outcome, shown >>
    /\ UNCHANGED << deleted, uiVars, analysis_id, doc, styleVars >>

\* lines 238-243: one iteration of the loop over focus_rows
FetchActions(fault) ==
    /\ pc = "loop"
    /\ focus_rows # <<>>
    /\ LET focus_row == Head(focus_rows)
           rows == SelectCoachingActions(focus_row.CoachingFocusID)
           actions == [i \in DOMAIN rows |-> rows[i].ActionText]
           q == Query("coaching actions", focus_row.CoachingFocusID, fault,
                      IF fault # NoFault THEN 0 ELSE Len(rows))
       IN  IF fault # NoFault THEN FetchExcept(Append(queries, q), fault)
           ELSE /\ queries' = Append(queries, q)
                /\ report' = AppendFocus(report, [area |-> focus_row.AreaText, specific_actions |-> actions])
                /\ focus_rows' = Tail(focus_rows)
                /\ UNCHANGED << pc, report_data, notices, outcome, shown >>
    /\ UNCHANGED << deleted, uiVars, analysis_id, doc, styleVars >>

\* lines 252-257: one appended dictionary per detail row
DetailItems(rows) ==
    [i \in DOMAIN rows |->
        [quality_point |-> rows[i].QualityPointText,
         trend_observation |-> rows[i].TrendObservation,
         coaching_recommendation_for_point |-> ""]]

\* lines 245-259, once the loop over focus_rows is over
FetchDetailsAndReturn(fault) ==
    /\ pc = "loop"
    /\ focus_rows = <<>>
    /\ LET rows == SelectDetails(analysis_id)
           q == Query("quality point details", analysis_id, fault,
                      IF fault # NoFault THEN 0 ELSE Len(rows))
           result == [report EXCEPT !.detailed_quality_point_analysis = @ \o DetailItems(rows)]
       IN  IF fault # NoFault THEN FetchExcept(Append(queries, q), fault)
           ELSE /\ queries' = Append(queries, q)
                /\ report' = PyNone
                /\ report_data' = result
                /\ pc' = "save"
                /\ UNCHANGED << focus_rows, notices, outcome, shown >>
    /\ UNCHANGED << deleted, uiVars, analysis_id, doc, styleVars >>

\* Destinations the user can give to the save dialog ("" when the dialog is cancelled).
SavePaths == {"", "C:/reports/QA_Report.docx"}

\* Faults of Document.save
SaveFaults == {"Permission denied"}

\* lines 200-210: the save dialog, then generate_docx_from_combined_json
SaveAndGenerate(save_path, fault) ==
    /\ pc = "save"
    /\ IF save_path = ""
       THEN /\ fault = NoFault
            /\ UNCHANGED doc
            /\ EndClick("Cancelled", notices)
       ELSE /\ doc' = DocElements(report_data)
            /\ IF fault # NoFault
               THEN EndClick("RenderFailure", Append(notices, DocxErrorBox(fault)))
               ELSE EndClick("Success", Append(notices, SuccessBox(save_path)))
    /\ UNCHANGED << deleted, uiVars, analysis_id, queries, focus_rows, report, report_data, styleVars >>

Next ==
    \/ \E id \in AnalysisIds : DeleteAnalysis(id)
    \/ \E i \in 1..Len(Agents), fault \in Faults \cup {NoFault} : OnAgentSelect(i, fault)
    \/ \E j \in 1..Len(CombinedAnalyses) : SelectDate(j)
    \/ OnDownloadClick
    \/ \E at \in 0..3, e \in Faults : FetchHeaderAndLists(at, e)
    \/ \E fault \in Faults \cup {NoFault} : FetchFocusRows(fault)
    \/ \E fault \in Faults \cup {NoFault} : FetchActions(fault)
    \/ \E fault \in Faults \cup {NoFault} : FetchDetailsAndReturn(fault)
    \/ \E save_path \in SavePaths, fault \in SaveFaults \cup {NoFault} : SaveAndGenerate(save_path, fault)

Spec == Init /\ [][Next]_vars

(***************************************************************************)
(* _apply_finding_color_to_run on every run and finding text.              *)
(***************************************************************************)
Runs == [bold : {"None", "True", "False"}, rgb : {<<>>, DarkGreen, DarkRed, DarkBlue, <<255, 255, 0>>}]

\* every spelling of a lower-case word in which some letters are capitals
CaseVariants(w) ==
    {[i \in DOMAIN w |-> IF i \in U THEN w[i] - 32 ELSE w[i]] : U \in SUBSET (DOMAIN w)}

\* "Mixed", "positiv", "positive ", " neutral", "negative."
OtherWords ==
    { <<77, 105, 120, 101, 100>>,
      <<112, 111, 115, 105, 116, 105, 118>>,
      <<112, 111, 115, 105, 116, 105, 118, 101, 32>>,
      <<32, 110, 101, 117, 116, 114, 97, 108>>,
      <<110, 101, 103, 97, 116, 105, 118, 101, 46>> }

FindingTexts ==
    {FindingNone}
      \cup {FindingStr(w) : w \in CaseVariants(PositiveWord) \cup CaseVariants(NegativeWord)
                                    \cup CaseVariants(NeutralWord) \cup OtherWords \cup {<<>>}}

InitStyle ==
    /\ deleted = {}
    /\ agents = AgentsDict(SelectAgents)
    /\ agent_listbox = [i \in DOMAIN SelectAgents |-> SelectAgents[i].AgentName]
    /\ agent_sel = 0
    /\ analysis_dates = <<>>
    /\ date_listbox = <<>>
    /\ date_src = <<>>
    /\ date_sel = 0
    /\ pc = "style"
    /\ analysis_id = 0
    /\ queries = <<>>
    /\ focus_rows = <<>>
    /\ report = PyNone
    /\ report_data = PyNone
    /\ notices = <<>>
    /\ outcome = "none"
    /\ shown = [o \in Outcomes |-> {}]
    /\ doc = <<>>
    /\ run \in {r \in Runs : r.bold # "True"}
    /\ finding_text \in FindingTexts
    /\ styled = FALSE

appVars ==
    << deleted, uiVars, pc, analysis_id, queries, focus_rows, report, report_data, notices,
       outcome, shown, doc >>

\* one call _apply_finding_color_to_run(run, finding_text)
ApplyFindingColor ==
    /\ pc = "style"
    /\ styled = FALSE
    /\ run' = ApplyFindingColorToRun(run, finding_text)
    /\ styled' = TRUE
    /\ UNCHANGED << finding_text, appVars >>

\* the same run is handed to the function again, with another finding text
NextFinding(ft) ==
    /\ pc = "style"
    /\ styled = TRUE
    /\ finding_text' = ft
    /\ styled' = FALSE
    /\ UNCHANGED << run, appVars >>

NextStyle ==
    \/ ApplyFindingColor
    \/ \E ft \in FindingTexts : NextFinding(ft)

SpecStyle == InitStyle /\ [][NextStyle]_vars

(***************************************************************************)
(* generate_docx_from_combined_json on every dictionary of a bounded set,  *)
(* with keys missing at every level.                                       *)
(***************************************************************************)
\* longest list of strengths, development areas, coaching foci and detail rows
MaxLen == 2

\* the dictionaries with no key, and with key k bound to each value of vals
Optional(k, vals) == {<<>>} \cup {k :> v : v \in vals}

SeqsUpTo(S, n) == UNION {[1..m -> S] : m \in 0..n}

HeaderInputs ==
    { [agent_name |-> PyStr("J. Smith"), number_of_reports_successfully_analyzed |-> PyInt(12),
       analysis_period_note |-> PyStr("Q1 2024")],
      [agent_name |-> PyStr("J. Smith"), number_of_reports_successfully_analyzed |-> PyNone,
       analysis_period_note |-> PyStr("")],
      [agent_name |-> PyStr("J. Smith")] }

FocusInputs ==
    { [area |-> "Hold Procedure", specific_actions |-> <<>>],
      [area |-> "Hold Procedure", specific_actions |-> <<"Confirm before hold">>],
      [area |-> "Empathy", specific_actions |-> <<"Acknowledge feelings", "Thank after hold">>],
      [area |-> "Closing"],
      [specific_actions |-> <<"Summarise the call">>] }

DetailInputs ==
    { [quality_point |-> "Greeting", trend_observation |-> "Consistent",
       coaching_recommendation_for_point |-> ""],
      [quality_point |-> "Hold", trend_observation |-> "Improving"],
      [quality_point |-> "Hold", coaching_recommendation_for_point |-> "Use the hold script"] }

SummaryInputs ==
    { s @@ d @@ c :
        s \in Optional("overall_strengths_observed", SeqsUpTo({"Clear tone"}, MaxLen)),
        d \in Optional("overall_areas_for_development", SeqsUpTo({"Pace"}, 1)),
        c \in Optional("consolidated_coaching_focus", SeqsUpTo(FocusInputs, MaxLen)) }

ReportInputs ==
    { h @@ q @@ d :
        h \in Optional("report_header", HeaderInputs),
        q \in Optional("qualitative_summary_and_coaching_plan", SummaryInputs),
        d \in Optional("detailed_quality_point_analysis", SeqsUpTo(DetailInputs, MaxLen)) }

InitRender ==
    /\ deleted = {}
    /\ agents = AgentsDict(SelectAgents)
    /\ agent_listbox = [i \in DOMAIN SelectAgents |-> SelectAgents[i].AgentName]
    /\ agent_sel = 0
    /\ analysis_dates = <<>>
    /\ date_listbox = <<>>
    /\ date_src = <<>>
    /\ date_sel = 0
    /\ pc = "render"
    /\ analysis_id = 0
    /\ queries = <<>>
    /\ focus_rows = <<>>
    /\ report = PyNone
    /\ report_data \in ReportInputs
    /\ notices = <<>>
    /\ outcome = "none"
    /\ shown = [o \in Outcomes |-> {}]
    /\ doc = <<>>
    /\ run = [bold |-> "None", rgb |-> <<>>]
    /\ finding_text = FindingNone
    /\ styled = FALSE

\* one call generate_docx_from_combined_json(report_data, save_path)
GenerateDocx(fault) ==
    /\ pc = "render"
    /\ doc' = DocElements(report_data)
    /\ pc' = "rendered"
    /\ outcome' = IF fault # NoFault THEN "RenderFailure" ELSE "Success"
    /\ notices' = IF fault # NoFault THEN <<DocxErrorBox(fault)>> ELSE <<>>
    /\ UNCHANGED << deleted, uiVars, analysis_id, queries, focus_rows, report, report_data,
                    shown, styleVars >>

NextRender == \E fault \in SaveFaults \cup {NoFault} : GenerateDocx(fault)

SpecRender == InitRender /\ [][NextRender]_vars

(***************************************************************************)
(* Properties of fetch_combined_analysis_data.                             *)
(***************************************************************************)
LastQuery == queries[Len(queries)]

\* C1: when the root query returns no row, the fetch ends at once with None (NotFound): the
\* root query is the only statement executed, no report dictionary exists and none is returned.
C1_NotFoundImmediately ==
    (queries # <<>> /\ queries[1].sql = "main" /\ queries[1].fault = NoFault /\ queries[1].nrows = 0)
        => /\ Len(queries) = 1
           /\ report = PyNone
           /\ report_data = PyNone
           /\ pc = "idle"
           /\ outcome = "NotFound"

C1_Witness ==
    /\ outcome = "NotFound"
    /\ queries # <<>>
    /\ queries[1].nrows = 0
    /\ queries[1].fault = NoFault
    /\ analysis_id \in deleted

\* C2: when a statement of the fetch faults, whichever it is, the click ends with a failure:
\* the caller receives None, never the report built up to the fault, and nothing is rendered.
C2_FaultAbortsAssembly ==
    (queries # <<>> /\ LastQuery.fault # NoFault)
        => /\ report_data = PyNone
           /\ report = PyNone
           /\ pc = "idle"
           /\ outcome = "AssemblyFailure"
           /\ doc = <<>>

C2_Witness ==
    /\ Len(queries) >= 6
    /\ LastQuery.fault # NoFault
    /\ LastQuery.sql = "quality point details"
    /\ \E k \in DOMAIN queries : queries[k].sql = "coaching actions" /\ queries[k].nrows > 0
    /\ report_data = PyNone

\* The focus rows of an analysis and the actions of a focus, as positions in their tables.
FocusPositions(id) ==
    {i \in DOMAIN CombinedAnalysisCoachingFocus : CombinedAnalysisCoachingFocus[i].CombinedAnalysisID = id}

ActionPositions(focus_id) ==
    {i \in DOMAIN CombinedAnalysisCoachingActions : CombinedAnalysisCoachingActions[i].CoachingFocusID = focus_id}

\* the k-th smallest member of a set of positions
Nth(P, k) == CHOOSE i \in P : Cardinality({j \in P : j < i}) = k - 1

\* C9: a returned report has one coaching focus per focus row of the analysis, in the order of
\* the rows, and each focus carries exactly the actions stored under its own CoachingFocusID,
\* in their order.
C9_FociAndActionsPreserved ==
    (report_data # PyNone) =>
        LET foci == report_data.qualitative_summary_and_coaching_plan.consolidated_coaching_focus
            P == FocusPositions(analysis_id)
        IN  /\ Len(foci) = Cardinality(P)
            /\ \A k \in DOMAIN foci :
                 LET row == CombinedAnalysisCoachingFocus[Nth(P, k)]
                     A == ActionPositions(row.CoachingFocusID)
                 IN  /\ foci[k].area = row.AreaText
                     /\ Len(foci[k].specific_actions) = Cardinality(A)
                     /\ \A m \in DOMAIN foci[k].specific_actions :
                          foci[k].specific_actions[m] = CombinedAnalysisCoachingActions[Nth(A, m)].ActionText

C9_Witness ==
    /\ report_data # PyNone
    /\ LET foci == report_data.qualitative_summary_and_coaching_plan.consolidated_coaching_focus
       IN  /\ Len(foci) = 3
           /\ Len(foci[1].specific_actions) = 2
           /\ Len(foci[2].specific_actions) = 1
           /\ Len(foci[3].specific_actions) = 0

(***************************************************************************)
(* Properties of the handlers.                                             *)
(***************************************************************************)
\* C8: each of the outcomes NotFound, AssemblyFailure and RenderFailure has notifications of
\* its own: no message box shown by a click ending in one is shown by a click ending in another.
C8_DistinctNotifications ==
    \A o1, o2 \in Outcomes : o1 # o2 => shown[o1] \cap shown[o2] = {}

\* C10: every entry of the date list resolves, through analysis_dates, to the
\* CombinedAnalysisID of the row the entry was made from, a row of the selected agent.
C10_EntryResolvesToItsRow ==
    \A j \in DOMAIN date_listbox :
        /\ Get(analysis_dates, date_listbox[j], 0) = date_src[j]
        /\ agent_sel # 0
        /\ \E i \in DOMAIN CombinedAnalyses :
              /\ CombinedAnalyses[i].CombinedAnalysisID = date_src[j]
              /\ CombinedAnalyses[i].AgentID = agents[agent_listbox[agent_sel]]

(***************************************************************************)
(* Properties of the rendering of an assembled report.                     *)
(***************************************************************************)
Rendered == outcome \in {"Success", "RenderFailure"} /\ doc # <<>>

\* the text shown for a header value that may be absent or empty
PresentOrNA(d, k) ==
    IF k \notin DOMAIN d THEN "N/A"
    ELSE IF d[k] = PyNone \/ d[k] = PyStr("") THEN "N/A"
    ELSE Format(d[k])

\* C5: the summary paragraph shows "N/A" for the report count and for the period note
\* whenever the value is absent, None or empty.
C5_SummaryShowsNA ==
    Rendered =>
        LET header == Get(report_data, "report_header", <<>>)
        IN  doc[2].text = "Analysis based on "
                            \o PresentOrNA(header, "number_of_reports_successfully_analyzed")
                            \o " calls. Period: "
                            \o PresentOrNA(header, "analysis_period_note")

\* C3: the third cell of every data row whose detail has no recommendation (key absent or
\* empty string) reads "N/A".
C3_MissingRecommendationShowsNA ==
    Rendered =>
        LET details == Get(report_data, "detailed_quality_point_analysis", <<>>)
            table == doc[Len(doc)]
        IN  details # <<>> =>
              /\ table.kind = "table"
              /\ Len(table.rows) = Len(details) + 1
              /\ \A i \in DOMAIN details :
                    (Get(details[i], "coaching_recommendation_for_point", "") = "")
                        => table.rows[i + 1][3].text = "N/A"

(***************************************************************************)
(* Properties of generate_docx_from_combined_json on arbitrary reports.    *)
(***************************************************************************)
QualitativeSummary == Get(report_data, "qualitative_summary_and_coaching_plan", <<>>)

StrengthsOf == Get(QualitativeSummary, "overall_strengths_observed", <<>>)

DevAreasOf == Get(QualitativeSummary, "overall_areas_for_development", <<>>)

FociOf == Get(QualitativeSummary, "consolidated_coaching_focus", <<>>)

DetailsOf == Get(report_data, "detailed_quality_point_analysis", <<>>)

ActionsOf(focus) == Get(focus, "specific_actions", <<>>)

FocusHeadingPositions == {i \in DOMAIN doc : doc[i].kind = "heading" /\ doc[i].level = 3}

\* the first position after i that holds a heading or a table, or the end of the document
SectionEnd(i) ==
    LET B == {j \in DOMAIN doc : j > i /\ doc[j].kind # "paragraph"}
    IN  IF B = {} THEN Len(doc) + 1 ELSE CHOOSE j \in B : \A m \in B : j <= m

\* C6: the document has one third-level heading per coaching focus, and under the heading of
\* each focus one numbered paragraph per action of that focus, preceded by the lead-in label
\* exactly when the focus has actions (nothing at all under a focus without actions).
C6_FocusAndActionCounts ==
    (pc = "rendered") =>
        /\ Cardinality(FocusHeadingPositions) = Len(FociOf)
        /\ \A k \in DOMAIN FociOf :
              LET i == Nth(FocusHeadingPositions, k)
                  body == (i + 1)..(SectionEnd(i) - 1)
                  n == Len(ActionsOf(FociOf[k]))
              IN  /\ Cardinality({j \in body : doc[j].style = "ListNumber"}) = n
                  /\ Cardinality({j \in body : doc[j].text = ActionsLabel /\ doc[j].bold})
                        = (IF n > 0 THEN 1 ELSE 0)
                  /\ Cardinality(body) = (IF n > 0 THEN n + 1 ELSE 0)

C6_Witness ==
    /\ pc = "rendered"
    /\ Len(FociOf) = 2
    /\ Len(ActionsOf(FociOf[1])) = 0
    /\ "specific_actions" \in DOMAIN FociOf[1]
    /\ Len(ActionsOf(FociOf[2])) = 2
    /\ Cardinality({j \in DOMAIN doc : doc[j].style = "ListNumber"}) = 2

TopHeadingTexts ==
    LET hs == SelectSeq(doc, LAMBDA e : e.kind = "heading" /\ e.level = 2)
    IN  [i \in DOMAIN hs |-> hs[i].text]

PositionOf(heading) ==
    CHOOSE i \in DOMAIN doc : doc[i].kind = "heading" /\ doc[i].level = 2 /\ doc[i].text = heading

RECURSIVE FociSize(_)
FociSize(foci) ==
    IF foci = <<>> THEN 0
    ELSE 1 + (IF ActionsOf(Head(foci)) = <<>> THEN 0 ELSE 1 + Len(ActionsOf(Head(foci))))
           + FociSize(Tail(foci))

IfNonEmpty(items, x) == IF items = <<>> THEN <<>> ELSE <<x>>

\* C7: the document is the title heading, the summary paragraph, then the strengths,
\* development-areas, coaching-plan and quality-point sections in this order, a section being
\* present exactly when its collection is non-empty (an empty or missing collection adds
\* neither a heading nor an item), with one bullet per strength and per area in list order.
C7_FixedOrderAndPresence ==
    (pc = "rendered") =>
        /\ doc[1].kind = "heading" /\ doc[1].level = 1
        /\ doc[2].kind = "paragraph" /\ doc[2].style = "Normal"
        /\ \A i \in DOMAIN doc : i > 1 => ~(doc[i].kind = "heading" /\ doc[i].level = 1)
        /\ TopHeadingTexts = IfNonEmpty(StrengthsOf, StrengthsHeading) \o IfNonEmpty(DevAreasOf, DevAreasHeading)
                               \o IfNonEmpty(FociOf, CoachingHeading) \o IfNonEmpty(DetailsOf, DetailHeading)
        /\ Len(doc) = 2 + (IF StrengthsOf = <<>> THEN 0 ELSE 1 + Len(StrengthsOf))
                        + (IF DevAreasOf = <<>> THEN 0 ELSE 1 + Len(DevAreasOf))
                        + (IF FociOf = <<>> THEN 0 ELSE 1 + FociSize(FociOf))
                        + (IF DetailsOf = <<>> THEN 0 ELSE 2)
        /\ StrengthsOf # <<>> =>
              \A i \in DOMAIN StrengthsOf :
                  doc[PositionOf(StrengthsHeading) + i] = Paragraph(StrengthsOf[i], "ListBullet")
        /\ DevAreasOf # <<>> =>
              \A i \in DOMAIN DevAreasOf :
                  doc[PositionOf(DevAreasHeading) + i] = Paragraph(DevAreasOf[i], "ListBullet")
        /\ FociOf # <<>> =>
              \A i \in FocusHeadingPositions :
                  /\ i > PositionOf(CoachingHeading)
                  /\ i <= PositionOf(CoachingHeading) + FociSize(FociOf)
        /\ FociOf = <<>> => FocusHeadingPositions = {}
        /\ DetailsOf # <<>> =>
              /\ doc[Len(doc)].kind = "table"
              /\ Len(doc[Len(doc)].rows) = Len(DetailsOf) + 1
              /\ PositionOf(DetailHeading) = Len(doc) - 1
        /\ Cardinality({i \in DOMAIN doc : doc[i].kind = "table"}) = (IF DetailsOf = <<>> THEN 0 ELSE 1)

C7_Witness ==
    /\ pc = "rendered"
    /\ "overall_strengths_observed" \notin DOMAIN QualitativeSummary
    /\ "overall_areas_for_development" \in DOMAIN QualitativeSummary
    /\ DevAreasOf = <<>>
    /\ Len(FociOf) = 2
    /\ Len(DetailsOf) = 1
    /\ TopHeadingTexts = <<CoachingHeading, DetailHeading>>

(***************************************************************************)
(* Properties of _apply_finding_color_to_run.                              *)
(***************************************************************************)
\* the text is the lower-case word w up to the case of its letters
EqualsIgnoringCase(ft, w) ==
    /\ ft.t = "str"
    /\ Len(ft.s) = Len(w)
    /\ \A i \in DOMAIN w : ft.s[i] = w[i] \/ ft.s[i] = w[i] - 32

IsFinding(ft) ==
    \/ EqualsIgnoringCase(ft, PositiveWord)
    \/ EqualsIgnoringCase(ft, NegativeWord)
    \/ EqualsIgnoringCase(ft, NeutralWord)

FindingColour(ft) ==
    IF EqualsIgnoringCase(ft, PositiveWord) THEN DarkGreen
    ELSE IF EqualsIgnoringCase(ft, NegativeWord) THEN DarkRed
    ELSE DarkBlue

IsEmptyFinding(ft) == ft.t = "none" \/ ft.s = <<>>

\* C4 as stated: a call sets bold and the colour of the finding when the text is "positive",
\* "negative" or "neutral" ignoring case, and leaves colour and bold unchanged for every other
\* value.
C4_OnlyFindingsStyled ==
    [][(~styled /\ styled') =>
          IF IsFinding(finding_text)
          THEN run'.bold = "True" /\ run'.rgb = FindingColour(finding_text)
          ELSE run' = run]_vars

\* C4 amended: a call sets bold and the colour of the finding when the text is "positive",
\* "negative" or "neutral" ignoring case; for every other non-empty text it sets bold and
\* leaves the colour unchanged; for the empty string and None it leaves both unchanged.
C4_BoldForEveryNonEmptyText ==
    [][(~styled /\ styled') =>
          IF IsFinding(finding_text)
          THEN run'.bold = "True" /\ run'.rgb = FindingColour(finding_text)
          ELSE IF IsEmptyFinding(finding_text)
          THEN run' = run
          ELSE run'.bold = "True" /\ run'.rgb = run.rgb]_vars

C4_Witness ==
    /\ styled
    /\ finding_text = FindingStr(<<77, 105, 120, 101, 100>>)
    /\ run = [bold |-> "True", rgb |-> <<>>]

====
